---- MODULE Spec2Model ----
(***************************************************************************)
(* WeatherBot (src/bots/weather_bot.py): one inbound query is turned into  *)
(* a lazily produced sequence of response chunks.  The asynchronous        *)
(* generator get_response is a state machine whose control points are its  *)
(* yield statements; the consumer drives it with anext and may close it.   *)
(*                                                                         *)
(* Strings that the code inspects character by character (the user         *)
(* message) are sequences of one-character strings; rendered text is a     *)
(* sequence of string parts whose concatenation is the chunk's text.       *)
(* Non-ASCII glyphs of the literals (emoji, degree sign) are left out.     *)
(***************************************************************************)
EXTENDS Naturals, Sequences, FiniteSets, TLC

\* ------------------------------------------------------------------ bounds
MaxPad == 1
MaxClock == 1
MaxPulls == 1

\* ----------------------------------------------------------------- strings
Whitespace == {" ", "\t"}

UpperChars == <<"A", "B", "C", "D", "E", "F", "G", "H", "I", "J", "K", "L", "M",
                "N", "O", "P", "Q", "R", "S", "T", "U", "V", "W", "X", "Y", "Z">>

LowerChars == <<"a", "b", "c", "d", "e", "f", "g", "h", "i", "j", "k", "l", "m",
                "n", "o", "p", "q", "r", "s", "t", "u", "v", "w", "x", "y", "z">>

Digits == <<"0", "1", "2", "3", "4", "5", "6", "7", "8", "9">>

ToLower(c) ==
    IF \E i \in 1..Len(UpperChars) : UpperChars[i] = c
    THEN LowerChars[CHOOSE i \in 1..Len(UpperChars) : UpperChars[i] = c]
    ELSE c

ToUpper(c) ==
    IF \E i \in 1..Len(LowerChars) : LowerChars[i] = c
    THEN UpperChars[CHOOSE i \in 1..Len(LowerChars) : LowerChars[i] = c]
    ELSE c

\* str.lower()
Lower(s) == [i \in 1..Len(s) |-> ToLower(s[i])]

\* str.upper(), used only to build inputs
Upper(s) == [i \in 1..Len(s) |-> ToUpper(s[i])]

RECURSIVE LStrip(_)
LStrip(s) ==
    IF s # <<>> /\ s[1] \in Whitespace THEN LStrip(Tail(s)) ELSE s

RECURSIVE RStrip(_)
RStrip(s) ==
    IF s # <<>> /\ s[Len(s)] \in Whitespace
    THEN RStrip(SubSeq(s, 1, Len(s) - 1))
    ELSE s

\* str.strip()
Strip(s) == RStrip(LStrip(s))

\* the text of a character sequence
RECURSIVE Join(_)
Join(s) == IF s = <<>> THEN "" ELSE s[1] \o Join(Tail(s))

\* the text of a sequence of parts
RECURSIVE Concat(_)
Concat(parts) == IF parts = <<>> THEN "" ELSE parts[1] \o Concat(Tail(parts))

\* str(n) of a natural number
RECURSIVE ToDecimal(_)
ToDecimal(n) ==
    IF n < 10 THEN Digits[n + 1]
    ELSE ToDecimal(n \div 10) \o Digits[(n % 10) + 1]

\* ------------------------------------------------------------------ inputs
BotInfoKeyword == <<"b", "o", "t", " ", "i", "n", "f", "o">>

HelpKeywords ==
    { <<"h", "e", "l", "p">>,
      <<"?">>,
      <<"/", "h", "e", "l", "p">> }

LocationKeywords ==
    { <<"c", "u", "r", "r", "e", "n", "t", " ", "l", "o", "c", "a", "t", "i", "o", "n">>,
      <<"m", "y", " ", "l", "o", "c", "a", "t", "i", "o", "n">>,
      <<"h", "e", "r", "e">> }

\* message bodies the consumer may send: every keyword, the empty message,
\* near-misses of the keywords and plain locations
Words ==
    {BotInfoKeyword} \cup HelpKeywords \cup LocationKeywords \cup
    { <<>>,
      <<"P", "a", "r", "i", "s">>,
      <<"A", "t", "l", "a", "n", "t", "i", "s">>,
      <<"h", "e", "l", "p", " ", "m", "e">>,
      <<"b", "o", "t", " ", " ", "i", "n", "f", "o">>,
      <<"h", "e", "r", "e", "f", "o", "r", "d">> }

Pads == UNION { [1..n -> Whitespace] : n \in 0..MaxPad }

Messages ==
    { l \o w \o r : l \in Pads, r \in Pads,
                    w \in Words \cup { Upper(x) : x \in Words } }

ApiKeys == {"", "KEY"}

\* ------------------------------------------------------------ JSON values
\* A value of the provider's JSON document: a number (temperatures and wind
\* speed in tenths), a string, a boolean, or a key that is absent.
JNum(n) == [t |-> "num", n |-> n, s |-> "", b |-> FALSE]
JStr(s) == [t |-> "str", n |-> 0, s |-> s, b |-> FALSE]
JBool(b) == [t |-> "bool", n |-> 0, s |-> "", b |-> b]
JAbsent == [t |-> "absent", n |-> 0, s |-> "", b |-> FALSE]

\* dict.get(key, default)
Get(v, default) == IF v.t = "absent" THEN default ELSE v

\* f"{x}" of a float held in tenths: 225 is 22.5, 0 is 0.0
FloatText(n) == ToDecimal(n \div 10) \o "." \o Digits[(n % 10) + 1]

TwoDigits(n) == Digits[(n \div 10) + 1] \o Digits[(n % 10) + 1]

\* datetime.utcfromtimestamp(t).strftime("%Y-%m-%d %H:%M:%S"), t within day one
FormatTime(t) ==
    "1970-01-01 " \o TwoDigits((t \div 3600) % 24) \o ":"
                  \o TwoDigits((t \div 60) % 60) \o ":" \o TwoDigits(t % 60)

\* -------------------------------------------------------------- exceptions
Exc(type, msg) == [type |-> type, msg |-> msg]
NoExc == Exc("", "")

\* ---------------------------------------------------------------- provider
\* WeatherBot._get_mock_weather
GetMockWeather(location, now) ==
    [ name       |-> JStr(Join(location)),
      temp       |-> JNum(225),
      feels_like |-> JNum(230),
      temp_min   |-> JNum(200),
      temp_max   |-> JNum(250),
      humidity   |-> JNum(65),
      w_main     |-> JStr("Clear"),
      w_desc     |-> JStr("clear sky"),
      wind_speed |-> JNum(36),
      country    |-> JStr("Mock"),
      dt         |-> JNum(now),
      timezone   |-> JNum(0),
      mock_data  |-> JBool(TRUE) ]

\* documents the live service may answer with (status 200): every key of the
\* OpenWeatherMap schema may be missing, and a number may arrive as text
LivePayloads(location) ==
    { [ name       |-> n,
        temp       |-> t,
        feels_like |-> JNum(101),
        temp_min   |-> JNum(95),
        temp_max   |-> JNum(120),
        humidity   |-> JNum(80),
        w_main     |-> JStr("Rain"),
        w_desc     |-> JStr("light rain"),
        wind_speed |-> JNum(41),
        country    |-> c,
        dt         |-> JNum(d),
        timezone   |-> JNum(0),
        mock_data  |-> JAbsent ]
      : n \in {JStr(Join(location)), JAbsent},
        t \in {JNum(105), JAbsent, JStr("n/a")},
        c \in {JStr("GB"), JAbsent},
        d \in 0..MaxClock }

\* no document: every key absent
NoData ==
    [ name |-> JAbsent, temp |-> JAbsent, feels_like |-> JAbsent, temp_min |-> JAbsent,
      temp_max |-> JAbsent, humidity |-> JAbsent, w_main |-> JAbsent, w_desc |-> JAbsent,
      wind_speed |-> JAbsent, country |-> JAbsent, dt |-> JAbsent, timezone |-> JAbsent,
      mock_data |-> JAbsent ]

Response(kind, code, msg, data) ==
    [kind |-> kind, code |-> code, msg |-> msg, data |-> data]

StatusCodes == {400, 401, 404, 429, 500, 503}

\* what the HTTP exchange of one call can come to
Responses(location) ==
    { Response("transport", 0, "All connection attempts failed", NoData) }
    \cup { Response("status", c, "", NoData) : c \in StatusCodes }
    \cup { Response("badjson", 200, "Expecting value: line 1 column 1 (char 0)", NoData) }
    \cup { Response("json", 200, "", d) : d \in LivePayloads(location) }

Returned(data, http) == [ret |-> "data", data |-> data, exc |-> NoExc, http |-> http]
Raised(exc, http) == [ret |-> "raise", data |-> NoData, exc |-> exc, http |-> http]

\* GetWeather that treats a rejected credential (401) like not-found
GetWeatherUnauthorizedNoRetry(api_key, location, now, resp) ==
    IF api_key = "" THEN Returned(GetMockWeather(location, now), FALSE)
    ELSE CASE resp.kind = "json" -> Returned(resp.data, TRUE)
           [] resp.kind = "status" ->
                IF resp.code = 404
                THEN Raised(Exc("BotErrorNoRetry",
                                "Location '" \o Join(location) \o "' not found."), TRUE)
                ELSE IF resp.code = 401
                THEN Raised(Exc("BotErrorNoRetry", "Invalid API key."), TRUE)
                ELSE Raised(Exc("BotError",
                                "Weather API error: HTTP " \o ToDecimal(resp.code)), TRUE)
           [] OTHER ->
                Raised(Exc("BotError", "Failed to get weather data: " \o resp.msg), TRUE)

\* WeatherBot._get_weather
GetWeather(api_key, location, now, resp) ==
    IF api_key = "" THEN Returned(GetMockWeather(location, now), FALSE)
    ELSE CASE resp.kind = "json" -> Returned(resp.data, TRUE)
           [] resp.kind = "status" ->
                IF resp.code = 404
                THEN Raised(Exc("BotErrorNoRetry",
                                "Location '" \o Join(location) \o "' not found."), TRUE)
                ELSE Raised(Exc("BotError",
                                "Weather API error: HTTP " \o ToDecimal(resp.code)), TRUE)
           [] OTHER ->
                Raised(Exc("BotError", "Failed to get weather data: " \o resp.msg), TRUE)

\* --------------------------------------------------------------- formatter
\* float(x) / int(x): a number converts, text that is no number raises
Converts(v) == v.t = "num"

MockNote == "**Note:** Using mock data. Set OPENWEATHER_API_KEY for real weather data.\n\n"

Formatted(parts) == [ok |-> TRUE, parts |-> parts, exc |-> NoExc]
FormatFailed(exc) == [ok |-> FALSE, parts |-> <<>>, exc |-> exc]

\* Header that never adds the mock-data note
HeaderNoNote(weather_data, location, country) ==
    IF Get(weather_data.mock_data, JBool(FALSE)).b
    THEN << "## Weather for " \o location \o "\n\n" >>
    ELSE << "## Weather for " \o location \o ", " \o country \o "\n\n" >>

\* the branch on weather_data.get("mock_data", False) that opens the response
Header(weather_data, location, country) ==
    IF Get(weather_data.mock_data, JBool(FALSE)).b
    THEN << "## Weather for " \o location \o "\n\n", MockNote >>
    ELSE << "## Weather for " \o location \o ", " \o country \o "\n\n" >>

\* WeatherBot._format_weather_data; one part per statement that extends response
FormatWeatherData(weather_data) ==
    LET location     == Get(weather_data.name, JStr("Unknown")).s
        country      == Get(weather_data.country, JStr("")).s
        temp         == Get(weather_data.temp, JNum(0))
        feels_like   == Get(weather_data.feels_like, JNum(0))
        temp_min     == Get(weather_data.temp_min, JNum(0))
        temp_max     == Get(weather_data.temp_max, JNum(0))
        humidity     == Get(weather_data.humidity, JNum(0))
        weather_main == Get(weather_data.w_main, JStr("Unknown")).s
        weather_desc == Get(weather_data.w_desc, JStr("Unknown")).s
        wind_speed   == weather_data.wind_speed
        dt           == Get(weather_data.dt, JNum(0)).n
        tz           == Get(weather_data.timezone, JNum(0)).n
        numbers      == <<temp, feels_like, temp_min, temp_max, humidity>>
    IN  IF \E i \in 1..Len(numbers) : ~Converts(numbers[i])
        THEN LET bad == numbers[CHOOSE i \in 1..Len(numbers) : ~Converts(numbers[i])]
             IN  FormatFailed(Exc("ValueError",
                     "could not convert string to float: '" \o bad.s \o "'"))
        ELSE Formatted(
               Header(weather_data, location, country) \o
               << "**Current Conditions:** " \o weather_main \o " (" \o weather_desc \o ")\n\n",
                  "### Temperature\n",
                  "- **Current:** " \o FloatText(temp.n) \o "C\n",
                  "- **Feels Like:** " \o FloatText(feels_like.n) \o "C\n",
                  "- **Min/Max:** " \o FloatText(temp_min.n) \o "C / "
                                    \o FloatText(temp_max.n) \o "C\n\n",
                  "### Additional Info\n",
                  "- **Humidity:** " \o ToDecimal(humidity.n) \o "%\n",
                  "- **Wind Speed:** "
                      \o (IF wind_speed.t = "absent" THEN "0" ELSE FloatText(wind_speed.n))
                      \o " m/s\n",
                  "- **Local Time:** " \o FormatTime(dt + tz) \o "\n" >>)

\* ---------------------------------------------------------- classification
\* Classify without the test for the ambiguous-location keywords
ClassifyNoLocationKeywords(user_message) ==
    LET message == Strip(user_message)
    IN  IF Strip(Lower(user_message)) = BotInfoKeyword THEN "info"
        ELSE IF Lower(message) \in HelpKeywords THEN "help"
        ELSE IF message = <<>> THEN "empty"
        ELSE "content"

\* Classify with the info test on the message as typed, not lower-cased
ClassifyInfoCaseSensitive(user_message) ==
    LET message == Strip(user_message)
    IN  IF Strip(user_message) = BotInfoKeyword THEN "info"
        ELSE IF Lower(message) \in HelpKeywords THEN "help"
        ELSE IF message = <<>> THEN "empty"
        ELSE IF Lower(message) \in LocationKeywords THEN "ambiguous"
        ELSE "content"

\* the chain of tests of get_response, in the order of the code
Classify(user_message) ==
    LET message == Strip(user_message)
    IN  IF Strip(Lower(user_message)) = BotInfoKeyword THEN "info"
        ELSE IF Lower(message) \in HelpKeywords THEN "help"
        ELSE IF message = <<>> THEN "empty"
        ELSE IF Lower(message) \in LocationKeywords THEN "ambiguous"
        ELSE "content"

\* ------------------------------------------------------------------ chunks
Chunk(kind, parts) == [kind |-> kind, parts |-> parts]

Text(chunk) == Concat(chunk.parts)

\* BaseBot._get_bot_metadata over the class attributes, and json.dumps(indent=2)
BotMetadataJson ==
    << "{\n",
       "  \"name\": \"WeatherBot\",\n",
       "  \"description\": \"A bot that provides weather information. Just tell me a city or location.\",\n",
       "  \"version\": \"1.0.0\"\n",
       "}" >>

HelpText ==
    << "\n## Weather Bot\n\n",
       "I can provide weather information for any location around the world.\n\n",
       "Just type a city or location name, for example:\n",
       "- `New York`\n- `London, UK`\n- `Tokyo`\n- `Paris, France`\n\n",
       "I'll give you the current weather conditions, temperature, and more.\n" >>

\* the chunk each terminating branch of the classification yields
SingleChunk(class) ==
    CASE class = "info"  -> Chunk("info", BotMetadataJson)
      [] class = "help"  -> Chunk("help", HelpText)
      [] class = "empty" ->
           Chunk("empty", <<"Please enter a location name. Type 'help' for instructions.">>)
      [] class = "ambiguous" ->
           Chunk("clarify",
                 <<"Please specify a location by name (e.g., 'New York', 'London, UK').">>)

\* the first yield of the content branch
StatusChunk(message) ==
    Chunk("status", <<"Getting weather for " \o Join(message) \o "...\n\n">>)

\* ErrorChunk with a single except clause for every exception
ErrorChunkOneClause(exc) == Chunk("error", <<"Weather error: " \o exc.msg>>)

\* the except clauses around the provider call and the formatter
ErrorChunk(exc) ==
    IF exc.type = "BotErrorNoRetry"
    THEN Chunk("error_noretry", <<"Error: " \o exc.msg>>)
    ELSE Chunk("error", <<"Weather error: " \o exc.msg>>)

\* BaseBot.get_response, entered from the outermost except clause
ParentErrorChunk == Chunk("parent_error", <<"An unexpected error occurred.">>)

\* ----------------------------------------------------------------- effects
\* What the generator does between two suspensions is a sequence of effects:
\* calls it makes, exceptions it handles, and the yield, return or raise that
\* ends the segment.
NoChunk == Chunk("", <<>>)
NoOutcome == [src |-> "", code |-> 0, ret |-> "", exc |-> NoExc, data |-> NoData]

Ev(ev) == [ev |-> ev, chunk |-> NoChunk, out |-> NoOutcome]
Yield(chunk) == [ev |-> "yield", chunk |-> chunk, out |-> NoOutcome]
Call(out) == [ev |-> "call", chunk |-> NoChunk, out |-> out]
FormatRaise(exc) ==
    [ev |-> "format_raise", chunk |-> NoChunk,
     out |-> [src |-> "format", code |-> 0, ret |-> "raise", exc |-> exc, data |-> NoData]]

\* self._extract_message(query)
ExtractMessage(query) == query.content

\* StartSegment with the provider called before the status chunk is yielded
StartSegmentCallFirst(query, extracts) ==
    IF ~extracts
    THEN << Ev("extract_raise"), Ev("super"), Yield(ParentErrorChunk) >>
    ELSE LET user_message == ExtractMessage(query)
             class == Classify(user_message)
         IN  IF class = "content"
             THEN << Call(NoOutcome), Yield(StatusChunk(Strip(user_message))) >>
             ELSE << Yield(SingleChunk(class)) >>

\* StartSegment without the outermost except clause
StartSegmentPropagates(query, extracts) ==
    IF ~extracts
    THEN << Ev("extract_raise"), Ev("raise") >>
    ELSE LET user_message == ExtractMessage(query)
             class == Classify(user_message)
         IN  IF class = "content"
             THEN << Yield(StatusChunk(Strip(user_message))) >>
             ELSE << Yield(SingleChunk(class)) >>

\* get_response from its entry to its first suspension
StartSegment(query, extracts) ==
    IF ~extracts
    THEN << Ev("extract_raise"), Ev("super"), Yield(ParentErrorChunk) >>
    ELSE LET user_message == ExtractMessage(query)
             class == Classify(user_message)
         IN  IF class = "content"
             THEN << Yield(StatusChunk(Strip(user_message))) >>
             ELSE << Yield(SingleChunk(class)) >>

\* FetchSegment that calls the provider once more after a BotError
FetchSegmentRetry(api_key, message, now, resp) ==
    LET r   == GetWeather(api_key, message, now, resp)
        out == [src  |-> IF r.http THEN resp.kind ELSE "mock",
                code |-> IF r.http THEN resp.code ELSE 0,
                ret  |-> r.ret,
                exc  |-> r.exc,
                data |-> r.data]
        net == IF r.http THEN << Ev("http") >> ELSE << >>
        once == << Call(out) >> \o net
    IN  IF r.ret = "raise"
        THEN (IF r.exc.type = "BotError" THEN once \o once ELSE once)
             \o << Yield(ErrorChunk(r.exc)) >>
        ELSE LET f == FormatWeatherData(r.data)
             IN  IF f.ok
                 THEN once \o << Ev("format"), Yield(Chunk("result", f.parts)) >>
                 ELSE once \o << FormatRaise(f.exc), Yield(ErrorChunk(f.exc)) >>

\* FetchSegment with the formatter called outside the inner try block
FetchSegmentFormatOutside(api_key, message, now, resp) ==
    LET r   == GetWeather(api_key, message, now, resp)
        out == [src  |-> IF r.http THEN resp.kind ELSE "mock",
                code |-> IF r.http THEN resp.code ELSE 0,
                ret  |-> r.ret,
                exc  |-> r.exc,
                data |-> r.data]
        net == IF r.http THEN << Ev("http") >> ELSE << >>
    IN  IF r.ret = "raise"
        THEN << Call(out) >> \o net \o << Yield(ErrorChunk(r.exc)) >>
        ELSE LET f == FormatWeatherData(r.data)
             IN  IF f.ok
                 THEN << Call(out) >> \o net \o << Ev("format"), Yield(Chunk("result", f.parts)) >>
                 ELSE << Call(out) >> \o net
                      \o << FormatRaise(f.exc), Ev("super"), Yield(ParentErrorChunk) >>

\* get_response resumed after the status chunk: the provider call, the
\* formatter, and the yield of the result or of the error
FetchSegment(api_key, message, now, resp) ==
    LET r   == GetWeather(api_key, message, now, resp)
        out == [src  |-> IF r.http THEN resp.kind ELSE "mock",
                code |-> IF r.http THEN resp.code ELSE 0,
                ret  |-> r.ret,
                exc  |-> r.exc,
                data |-> r.data]
        net == IF r.http THEN << Ev("http") >> ELSE << >>
    IN  IF r.ret = "raise"
        THEN << Call(out) >> \o net \o << Yield(ErrorChunk(r.exc)) >>
        ELSE LET f == FormatWeatherData(r.data)
             IN  IF f.ok
                 THEN << Call(out) >> \o net \o << Ev("format"), Yield(Chunk("result", f.parts)) >>
                 ELSE << Call(out) >> \o net \o << FormatRaise(f.exc), Yield(ErrorChunk(f.exc)) >>

\* get_response resumed after the chunk of a terminating branch, after the
\* result chunk or after an error chunk: nothing is left to run
ReturnSegment == << Ev("return") >>

\* CloseSegment with except clauses that catch GeneratorExit too
CloseSegmentCaught(at) ==
    IF at = "y_status"
    THEN << Ev("close"), Yield(ErrorChunk(Exc("GeneratorExit", ""))) >>
    ELSE << Ev("close") >>

\* aclose(): GeneratorExit is thrown at the suspended yield; it is no
\* Exception, so neither except clause of get_response handles it
CloseSegment(at) == << Ev("close") >>

\* ------------------------------------------------------------------- state
VARIABLES
    api_key,    \* self.api_key, "" when OPENWEATHER_API_KEY is not set
    query,      \* the inbound query
    pc,         \* where the generator is: start, y_<chunk kind>, done, closed
    message,    \* the local variable message of the content branch
    chunks,     \* the chunks the consumer has received, in order
    events,     \* history: every effect so far, in order
    pulls       \* anext calls made after the sequence ended

vars == <<api_key, query, pc, message, chunks, events, pulls>>

Init ==
    /\ api_key \in ApiKeys
    /\ query \in [content : Messages]
    /\ pc = "start"
    /\ message = <<>>
    /\ chunks = <<>>
    /\ events = <<>>
    /\ pulls = 0

SingleStates == {"y_info", "y_help", "y_empty", "y_clarify"}
TailStates == {"y_result", "y_error_noretry", "y_error"}
Suspended == SingleStates \cup TailStates \cup {"y_status", "y_parent_error"}

\* the values the state takes
TypeOK ==
    /\ api_key \in ApiKeys
    /\ query \in [content : Messages]
    /\ pc \in Suspended \cup {"start", "done", "closed"}
    /\ message \in {<<>>, Strip(query.content)}
    /\ Len(chunks) <= 2
    /\ \A i \in 1..Len(chunks) : chunks[i].kind # ""
    /\ pulls \in 0..MaxPulls

Yields(effects) == SelectSeq(effects, LAMBDA e : e.ev = "yield")

\* the control point a segment leaves the generator at
After(effects) ==
    LET last == effects[Len(effects)]
    IN  CASE last.ev = "yield"  -> "y_" \o last.chunk.kind
          [] last.ev = "return" -> "done"
          [] last.ev = "close"  -> "closed"
          [] OTHER              -> "raised"

Run(effects) ==
    /\ events' = events \o effects
    /\ chunks' = chunks \o [i \in 1..Len(Yields(effects)) |-> Yields(effects)[i].chunk]
    /\ pc' = After(effects)

\* the first anext
Start ==
    /\ pc = "start"
    /\ \E extracts \in BOOLEAN :
         /\ Run(StartSegment(query, extracts))
         /\ message' = IF extracts /\ Classify(ExtractMessage(query)) = "content"
                       THEN Strip(ExtractMessage(query)) ELSE message
    /\ UNCHANGED <<api_key, query, pulls>>

\* anext after the only chunk of the info, help, empty or clarification branch
ResumeSingle ==
    /\ pc \in SingleStates
    /\ Run(ReturnSegment)
    /\ UNCHANGED <<api_key, query, message, pulls>>

\* anext after the status chunk
Fetch ==
    /\ pc = "y_status"
    /\ \E now \in 0..MaxClock, resp \in Responses(message) :
         Run(FetchSegment(api_key, message, now, resp))
    /\ UNCHANGED <<api_key, query, message, pulls>>

\* anext after the result chunk or an error chunk
ResumeTail ==
    /\ pc \in TailStates
    /\ Run(ReturnSegment)
    /\ UNCHANGED <<api_key, query, message, pulls>>

\* anext after the chunk of BaseBot.get_response
ResumeParent ==
    /\ pc = "y_parent_error"
    /\ Run(ReturnSegment)
    /\ UNCHANGED <<api_key, query, message, pulls>>

\* the consumer stops early: aclose() before the first anext or at a yield
Close ==
    /\ pc \in Suspended \cup {"start"}
    /\ Run(CloseSegment(pc))
    /\ UNCHANGED <<api_key, query, message, pulls>>

\* anext on an exhausted or closed generator: StopAsyncIteration, no code runs
PullAfterEnd ==
    /\ pc \in {"done", "closed"}
    /\ pulls < MaxPulls
    /\ pulls' = pulls + 1
    /\ events' = Append(events, Ev("stop_iteration"))
    /\ UNCHANGED <<api_key, query, pc, message, chunks>>

Next ==
    \/ Start
    \/ ResumeSingle
    \/ Fetch
    \/ ResumeTail
    \/ ResumeParent
    \/ Close
    \/ PullAfterEnd

Spec == Init /\ [][Next]_vars

\* ------------------------------------------------------------ observations
Count(ev) == Len(SelectSeq(events, LAMBDA e : e.ev = ev))

\* invocations of _get_weather, and live HTTP requests, so far
Calls == Count("call")
HttpCalls == Count("http")

\* the provider calls made so far, each with its outcome
Outcomes == SelectSeq(events, LAMBDA e : e.ev = "call")

\* the exceptions raised so far by the provider call or by the formatter
Failures ==
    SelectSeq(events, LAMBDA e : e.ev \in {"call", "format_raise"} /\ e.out.ret = "raise")

Texts == [i \in 1..Len(chunks) |-> Text(chunks[i])]

\* the message was extracted and the classification reached a branch
Classified == events # <<>> /\ events[1].ev \notin {"extract_raise", "close"}

\* the classes of a message, stated on its trimmed, lower-cased form
Trimmed(m) == Lower(Strip(m))
InfoMsg(t) == t = BotInfoKeyword
HelpMsg(t) == t \in HelpKeywords
EmptyMsg(t) == t = <<>>
AmbiguousMsg(t) == t \in LocationKeywords
ContentMsg(t) == ~InfoMsg(t) /\ ~HelpMsg(t) /\ ~EmptyMsg(t) /\ ~AmbiguousMsg(t)

ContentRequest == Classified /\ ContentMsg(Trimmed(query.content))

\* ------------------------------------------------------------------ claims
\* C1: a query whose message is info, help, empty or an ambiguous-location
\* keyword never reaches the provider (no _get_weather call, no HTTP request),
\* gets exactly one chunk, the one of its branch, and the sequence then ends.
C1_NonContentNeverCallsProvider ==
    (Classified /\ ~ContentMsg(Trimmed(query.content))) =>
        /\ Calls = 0
        /\ HttpCalls = 0
        /\ Len(chunks) = 1
        /\ chunks[1].kind \in {"info", "help", "empty", "clarify"}
        /\ pc \in SingleStates \cup {"done", "closed"}

C1_Witness ==
    /\ pc = "done"
    /\ AmbiguousMsg(Trimmed(query.content))
    /\ query.content # Trimmed(query.content)
    /\ Len(chunks) = 1
    /\ chunks[1].kind = "clarify"

\* C2: on a content request the first thing get_response does is yield the
\* status chunk "Getting weather for <message>...": it is the first chunk, no
\* later chunk is a status chunk, and the provider call and every result or
\* error chunk come after it, whatever the provider does.
C2_StatusChunkFirst ==
    ContentRequest =>
        /\ events[1].ev = "yield"
        /\ chunks[1].kind = "status"
        /\ Text(chunks[1]) = "Getting weather for " \o Join(Strip(query.content)) \o "...\n\n"
        /\ \A i \in 2..Len(chunks) : chunks[i].kind \in {"result", "error_noretry", "error"}
        /\ \A j \in 1..Len(events) : events[j].ev \in {"call", "http"} => j > 1

C2_Witness ==
    /\ ContentRequest
    /\ pc = "done"
    /\ Len(chunks) = 2
    /\ chunks[2].kind = "error"
    /\ Outcomes[1].out.src = "transport"

\* C3: a content request consumed to exhaustion has called the provider
\* exactly once and got exactly one outcome, data or an exception; at no
\* point has the provider been called twice, so no failure is retried.
C3_OneProviderCall ==
    ContentRequest =>
        /\ Calls <= 1
        /\ HttpCalls <= Calls
        /\ pc = "done" =>
             /\ Calls = 1
             /\ Len(Outcomes) = 1
             /\ Outcomes[1].out.ret \in {"data", "raise"}

C3_Witness ==
    /\ ContentRequest
    /\ pc = "done"
    /\ Calls = 1
    /\ Outcomes[1].out.ret = "raise"
    /\ Outcomes[1].out.exc.type = "BotError"

\* C4: when the provider call or the formatter raises on a content request,
\* the consumer gets the status chunk and then exactly one error chunk whose
\* text carries the exception's message, no result chunk, the sequence ends,
\* and no exception leaves get_response.
C4_FailureGivesOneErrorChunk ==
    /\ pc # "raised"
    /\ Failures # <<>> =>
         /\ Len(Failures) = 1
         /\ Len(chunks) = 2
         /\ chunks[1].kind = "status"
         /\ chunks[2].kind \in {"error_noretry", "error"}
         /\ Text(chunks[2]) \in {"Error: " \o Failures[1].out.exc.msg,
                                 "Weather error: " \o Failures[1].out.exc.msg}
         /\ pc \in {"y_error_noretry", "y_error", "done", "closed"}

C4_Witness ==
    /\ pc = "done"
    /\ Len(Failures) = 1
    /\ Failures[1].ev = "format_raise"
    /\ chunks[2].kind = "error"

\* C5: when the provider answers 404 for location L, the chunks are exactly
\* "Getting weather for L..." and "Error: Location 'L' not found.", and
\* nothing follows.
C5_NotFoundChunks ==
    (Outcomes # <<>> /\ Outcomes[1].out.src = "status" /\ Outcomes[1].out.code = 404) =>
        LET L == Join(Strip(query.content))
        IN  /\ Texts = << "Getting weather for " \o L \o "...\n\n",
                          "Error: Location '" \o L \o "' not found." >>
            /\ pc \in {"y_error_noretry", "done", "closed"}

C5_Witness ==
    /\ pc = "done"
    /\ query.content = <<" ", "A", "t", "l", "a", "n", "t", "i", "s">>
    /\ Texts = << "Getting weather for Atlantis...\n\n",
                  "Error: Location 'Atlantis' not found." >>

\* the outcomes of provider calls that raised
ProviderFailures == SelectSeq(Outcomes, LAMBDA e : e.out.ret = "raise")

InParts(part, chunk) == \E k \in 1..Len(chunk.parts) : chunk.parts[k] = part

\* C6, as stated: a failure caused by a rejected credential (HTTP 401) is a
\* terminal failure (BotErrorNoRetry) like not-found, and only transport
\* errors, HTTP 5xx and unexpected exceptions are retryable (BotError).
C6_CredentialFailureIsTerminal ==
    \A i \in 1..Len(ProviderFailures) :
        LET o == ProviderFailures[i].out
        IN  /\ (o.src = "status" /\ o.code = 401) => o.exc.type = "BotErrorNoRetry"
            /\ o.exc.type = "BotError" =>
                 \/ o.src \in {"transport", "badjson"}
                 \/ o.src = "status" /\ o.code >= 500

\* C6, amended: only HTTP 404 is terminal (BotErrorNoRetry); every other
\* HTTP status, 401 of a rejected credential included, every transport error
\* and every unexpected exception is retryable (BotError); without a key the
\* provider call never fails; and either kind of failure reaches the consumer
\* as one error chunk after the status chunk, after which the sequence ends.
C6_OnlyNotFoundIsTerminal ==
    /\ api_key = "" => ProviderFailures = <<>>
    /\ \A i \in 1..Len(ProviderFailures) :
        LET o == ProviderFailures[i].out
        IN  /\ o.exc.type \in {"BotErrorNoRetry", "BotError"}
            /\ o.exc.type = "BotErrorNoRetry" <=> (o.src = "status" /\ o.code = 404)
            /\ (o.src = "status" /\ o.code # 404) =>
                 o.exc.msg = "Weather API error: HTTP " \o ToDecimal(o.code)
            /\ Len(chunks) = 2
            /\ chunks[2].kind = (IF o.exc.type = "BotErrorNoRetry"
                                 THEN "error_noretry" ELSE "error")
            /\ pc \in {"y_error_noretry", "y_error", "done", "closed"}

C6_Witness ==
    /\ pc = "done"
    /\ Len(ProviderFailures) = 1
    /\ ProviderFailures[1].out.code = 401
    /\ ProviderFailures[1].out.exc.type = "BotError"
    /\ Text(chunks[2]) = "Weather error: Weather API error: HTTP 401"

\* C7: without a credential a content request makes no HTTP request, the
\* provider returns data flagged mock_data, and the result chunk carries the
\* mock-data note; with a credential every result chunk is built from the
\* live document and never carries the note.
C7_MockDataIsLabelled ==
    /\ (api_key = "" /\ ContentRequest) =>
         /\ HttpCalls = 0
         /\ \A i \in 1..Len(Outcomes) :
              /\ Outcomes[i].out.src = "mock"
              /\ Outcomes[i].out.ret = "data"
              /\ Outcomes[i].out.data.mock_data = JBool(TRUE)
         /\ Calls = 1 =>
              /\ Len(chunks) = 2
              /\ chunks[2].kind = "result"
              /\ InParts(MockNote, chunks[2])
    /\ api_key # "" =>
         \A i \in 1..Len(chunks) :
            chunks[i].kind = "result" =>
              /\ HttpCalls = 1
              /\ Outcomes[1].out.src = "json"
              /\ ~InParts(MockNote, chunks[i])

C7_Witness ==
    /\ api_key = ""
    /\ pc = "done"
    /\ HttpCalls = 0
    /\ Len(chunks) = 2
    /\ chunks[2].kind = "result"
    /\ InParts(MockNote, chunks[2])

\* C8: once the consumer has closed the sequence, the generator runs no code:
\* no provider call, no HTTP request and no chunk follows the close; closing
\* right after the status chunk leaves the provider uncalled.
C8_NothingRunsAfterClose ==
    /\ \A i \in 1..Len(events) :
         events[i].ev = "close" =>
           /\ pc = "closed"
           /\ \A j \in (i + 1)..Len(events) : events[j].ev = "stop_iteration"
    /\ (pc = "closed" /\ Len(chunks) = 1 /\ chunks[1].kind = "status") =>
         /\ Calls = 0
         /\ HttpCalls = 0

C8_Witness ==
    /\ pc = "closed"
    /\ api_key # ""
    /\ Len(chunks) = 1
    /\ chunks[1].kind = "status"
    /\ pulls = 1
    /\ Calls = 0

KindOfTrimmed(t) ==
    IF InfoMsg(t) THEN "info"
    ELSE IF HelpMsg(t) THEN "help"
    ELSE IF EmptyMsg(t) THEN "empty"
    ELSE IF AmbiguousMsg(t) THEN "clarify"
    ELSE "status"

\* C10: the branch get_response takes is a function of the trimmed,
\* lower-cased message: the message and its trimmed form are classified
\* alike, at most one of the info, help, empty and ambiguous-location tests
\* matches, the first chunk is the one of the first matching test, and a
\* message that matches none of them is a content request.
C10_ClassificationByTrimmedMessage ==
    LET t == Trimmed(query.content)
        matches == { c \in {"info", "help", "empty", "ambiguous"} :
                       \/ c = "info" /\ InfoMsg(t)
                       \/ c = "help" /\ HelpMsg(t)
                       \/ c = "empty" /\ EmptyMsg(t)
                       \/ c = "ambiguous" /\ AmbiguousMsg(t) }
    IN  /\ Cardinality(matches) <= 1
        /\ Classify(query.content) = Classify(t)
        /\ Classify(query.content) = "content" <=> matches = {}
        /\ Classified => chunks[1].kind = KindOfTrimmed(t)

C10_Witness ==
    /\ Classified
    /\ query.content = <<" ", "B", "O", "T", " ", "I", "N", "F", "O", "\t">>
    /\ chunks[1].kind = "info"
    /\ pc = "done"

====
